---- MODULE Spec2Model ----
(***************************************************************************)
(* A model of cinder/api/v2/volumes.py: the VolumeController of the v2     *)
(* volumes API.  One controller serves one request at a time; each request *)
(* (create, index/detail, update) runs as a sequence of steps, one step    *)
(* per statement group of the handler, and every call into a collaborator  *)
(* (volume API, volume types, consistency groups, image service, usage     *)
(* notifications) is appended to `trace` when it is made.                  *)
(*                                                                         *)
(* Python values.  Request mappings are dicts: functions whose domain is   *)
(* the set of keys present.  JSON scalars are written as strings; the      *)
(* string "None" stands for Python's None.  Objects returned by the        *)
(* collaborators are records; NoneObj is None in a slot that holds such an *)
(* object.  What a collaborator answers is an input of the step that calls *)
(* it, drawn from the small sets below.                                    *)
(***************************************************************************)
EXTENDS Integers, Sequences, FiniteSets, TLC

VARIABLES
    ext_mgr,      \* self.ext_mgr: TRUE iff is_loaded('os-image-create')
    handler,      \* the method serving the request: create, _get_volumes, update
    pc,           \* the statement group the handler is at ("idle": no request)
    body,         \* the request as received: the body of create / update, the
                  \* parsed parameters of a listing
    volume,       \* create: body['volume'], mutated in place
    kwargs,       \* create: the keyword arguments being assembled
    size,         \* create: the local `size`
    image_uuid,   \* _image_uuid_from_ref: the local `image_uuid`
    context,      \* listing: [is_admin |-> BOOLEAN]
    filters,      \* listing: the filter mapping
    sort_keys,    \* listing: the sort-key list
    update_dict,  \* update: the field set
    db_volume,    \* update: the record returned by volume_api.get
    trace,        \* the collaborator calls of this request with their answers,
                  \* in order
    calls,        \* the calls into volume_api.create / get_all / update, with arguments
    result        \* the outcome of the request: a status or an HTTP error

vars == <<ext_mgr, handler, pc, body, volume, kwargs, size, image_uuid, context, filters,
          sort_keys, update_dict, db_volume, trace, calls, result>>

createVars == <<volume, kwargs, size, image_uuid>>
listVars   == <<context, filters, sort_keys>>
updateVars == <<update_dict, db_volume>>

(***************************************************************************)
(* Bounds of the model.                                                    *)
(***************************************************************************)
MaxKeys     == 4   \* keys a client puts into body['volume']
MaxSortKeys == 2   \* length of the parsed sort-key list
MaxImages   == 2   \* images the catalog returns for one name filter

(***************************************************************************)
(* Python values and dict operations.                                      *)
(***************************************************************************)
None    == "None"
NoneObj == [id |-> "None"]
EmptyDict == <<>>

Has(d, k) == k \in DOMAIN d
Get(d, k, default) == IF k \in DOMAIN d THEN d[k] ELSE default
Put(d, k, v) == [x \in (DOMAIN d) \cup {k} |-> IF x = k THEN v ELSE d[x]]
Del(d, k) == [x \in (DOMAIN d) \ {k} |-> d[x]]

RECURSIVE Dicts(_, _)
Dicts(keys, vals) ==
    IF keys = {} THEN {EmptyDict}
    ELSE LET k == CHOOSE x \in keys : TRUE
         IN  {Put(d, k, v) : d \in Dicts(keys \ {k}, vals), v \in vals[k]}

DictsUpTo(keys, vals, n) ==
    UNION {Dicts(S, vals) : S \in {T \in SUBSET keys : Cardinality(T) <= n}}

Event(ev, arg, out) == [ev |-> ev, arg |-> arg, out |-> out]

(***************************************************************************)
(* The requests a client can send to create.                               *)
(***************************************************************************)
UuidRef == "6a0f7f5c-0b1d-4c3e-9d5e-2f1c8b7a4e10"
UrlRef  == "http://glance/v2/images/6a0f7f5c-0b1d-4c3e-9d5e-2f1c8b7a4e10"
NameRef == "cirros"
IntRef  == "42"            \* the JSON number 42: not a str, it has no split()
TypeUuid == "0c2e1a3b-7d44-4e0a-8f6b-5b9d3c1e2a77"

CreateKeys ==
    {"name", "description", "display_name", "display_description", "image_id",
     "imageRef", "volume_type", "metadata", "snapshot_id", "source_volid",
     "source_replica", "consistencygroup_id", "size", "availability_zone",
     "scheduler_hints", "multiattach"}

CreateValues ==
    [k \in CreateKeys |->
        CASE k = "name"                -> {"n"}
          [] k = "description"         -> {"d"}
          [] k = "display_name"        -> {"dn"}
          [] k = "display_description" -> {"dd"}
          [] k = "image_id"            -> {None, UuidRef}
          [] k = "imageRef"            -> {NameRef, UuidRef, UrlRef, IntRef}
          [] k = "volume_type"         -> {"", "gold", TypeUuid}
          [] k = "metadata"            -> {"meta"}
          [] k = "snapshot_id"         -> {"snap-1"}
          [] k = "source_volid"        -> {"vol-1"}
          [] k = "source_replica"      -> {"vol-2"}
          [] k = "consistencygroup_id" -> {"cg-1"}
          [] k = "size"                -> {None, "5"}
          [] k = "availability_zone"   -> {"nova"}
          [] k = "scheduler_hints"     -> {"hints"}
          [] k = "multiattach"         -> {"True"}]

VolumeDicts == DictsUpTo(CreateKeys, CreateValues, MaxKeys)

CreateBodies ==
    {EmptyDict, [other |-> EmptyDict]} \cup {[volume |-> v] : v \in VolumeDicts}

(***************************************************************************)
(* What the collaborators can answer.                                      *)
(***************************************************************************)
NotFound == [id |-> "NotFound"]

SnapshotAnswers ==
    {NotFound} \cup {[id |-> "snap-1", volume_size |-> s] : s \in {None, "10"}}
VolumeAnswers(id) ==
    {NotFound} \cup
    {[id |-> id, size |-> s, replication_status |-> r] :
        s \in {None, "20"}, r \in {"disabled", "enabled", "error"}}

Init ==
    /\ ext_mgr \in BOOLEAN
    /\ handler = None
    /\ pc = "idle"
    /\ body = EmptyDict
    /\ volume = EmptyDict
    /\ kwargs = EmptyDict
    /\ size = None
    /\ image_uuid = None
    /\ context = [is_admin |-> FALSE]
    /\ filters = EmptyDict
    /\ sort_keys = <<>>
    /\ update_dict = EmptyDict
    /\ db_volume = EmptyDict
    /\ trace = <<>>
    /\ calls = <<>>
    /\ result = None

\* raise <error>: the handler ends with the error; nothing else changes.
Raise(error) ==
    /\ pc' = "done"
    /\ result' = error

(***************************************************************************)
(* create, lines 174-180: assert_valid_body and the fetch of the mapping.  *)
(***************************************************************************)
Create(b) ==
    /\ pc = "idle"
    /\ handler' = "create"
    /\ body' = b
    /\ IF b = EmptyDict \/ ~Has(b, "volume")
       THEN /\ Raise("BadRequest")
            /\ UNCHANGED volume
       ELSE /\ pc' = "validate"
            /\ volume' = b["volume"]
            /\ UNCHANGED result
    /\ UNCHANGED <<ext_mgr, kwargs, size, image_uuid, listVars, updateVars,
                   trace, calls>>

\* POST /volumes: create(req, body) with any body a client can send.
CreateRequest == pc = "idle" /\ \E b \in CreateBodies : Create(b)

\* line 183: validate_name_and_description(volume).  The check is on the length
\* of a name or description that is present and not None.
ValidateNameAndDescription ==
    /\ pc = "validate"
    /\ \E ok \in BOOLEAN :
        /\ ~ok => \/ Get(volume, "name", None) # None
                  \/ Get(volume, "description", None) # None
        /\ IF ok THEN pc' = "normalize" /\ UNCHANGED result
                 ELSE Raise("BadRequest")
    /\ UNCHANGED <<ext_mgr, handler, body, createVars, listVars, updateVars, trace, calls>>

\* volume[new] = volume.pop(old) when old is a key of the mapping.
Rename(d, old, new) == IF Has(d, old) THEN Del(Put(d, new, d[old]), old) ELSE d

\* The aliasing with a supplied display_name / display_description kept.
NormalizeFieldsDisplayKept(v) ==
    LET alias(d, old, new) == IF Has(d, new) THEN Del(d, old) ELSE Rename(d, old, new)
    IN  Rename(alias(alias(v, "name", "display_name"),
                     "description", "display_description"),
               "image_id", "imageRef")

\* lines 185-196: name -> display_name, description -> display_description,
\* image_id -> imageRef.
NormalizeFields(v) ==
    Rename(Rename(Rename(v, "name", "display_name"),
                  "description", "display_description"),
           "image_id", "imageRef")

Normalize ==
    /\ pc = "normalize"
    /\ volume' = NormalizeFields(volume)
    /\ pc' = "volume_type"
    /\ UNCHANGED <<ext_mgr, handler, body, kwargs, size, image_uuid, listVars, updateVars,
                   trace, calls, result>>

\* uuidutils.is_uuid_like, on the strings of the model.
is_uuid_like(s) == s \in {UuidRef, TypeUuid}

\* Python truth of a scalar: None and the empty string are false.
Truthy(x) == x # None /\ x # ""

\* Lookup with the NotFound of the collaborator swallowed: the slot is left
\* None and the handler goes on.
LookupSwallowed(call, arg, answer, key, next) ==
    /\ trace' = Append(trace, Event(call, arg, answer))
    /\ kwargs' = Put(kwargs, key, IF answer = NotFound THEN NoneObj ELSE answer)
    /\ pc' = next
    /\ UNCHANGED result

\* A lookup by identifier: the call is traced; NotFound propagates, anything
\* else is stored under `key` and the handler goes on at `next`.
Lookup(call, arg, answer, key, next) ==
    /\ trace' = Append(trace, Event(call, arg, answer))
    /\ IF answer = NotFound
       THEN Raise("NotFound") /\ UNCHANGED kwargs
       ELSE /\ kwargs' = Put(kwargs, key, answer)
            /\ pc' = next
            /\ UNCHANGED result

\* No reference supplied: the slot is set to None.
NoReference(key, next) ==
    /\ kwargs' = Put(kwargs, key, NoneObj)
    /\ pc' = next
    /\ UNCHANGED <<trace, result>>

\* lines 198-209: the volume type, by name or by identifier, then metadata.
ResolveVolumeType ==
    /\ pc = "volume_type"
    /\ LET req_volume_type == Get(volume, "volume_type", None)
           metadata == Get(volume, "metadata", None)
       IN  IF Truthy(req_volume_type)
           THEN \E answer \in {NotFound, [id |-> req_volume_type]} :
                  /\ trace' = Append(trace,
                        Event(IF is_uuid_like(req_volume_type)
                              THEN "volume_types.get_volume_type"
                              ELSE "volume_types.get_volume_type_by_name",
                              req_volume_type, answer))
                  /\ IF answer = NotFound
                     THEN Raise("NotFound") /\ UNCHANGED kwargs
                     ELSE /\ kwargs' = Put(Put(kwargs, "volume_type", answer),
                                           "metadata", metadata)
                          /\ pc' = "snapshot"
                          /\ UNCHANGED result
           ELSE /\ kwargs' = Put(kwargs, "metadata", metadata)
                /\ pc' = "snapshot"
                /\ UNCHANGED <<trace, result>>
    /\ UNCHANGED <<ext_mgr, handler, body, volume, size, image_uuid, listVars, updateVars,
                   calls>>

\* lines 211-217.
ResolveSnapshot ==
    /\ pc = "snapshot"
    /\ LET snapshot_id == Get(volume, "snapshot_id", None)
       IN  IF snapshot_id # None
           THEN \E answer \in SnapshotAnswers :
                  Lookup("volume_api.get_snapshot", snapshot_id, answer,
                         "snapshot", "source_volid")
           ELSE NoReference("snapshot", "source_volid")
    /\ UNCHANGED <<ext_mgr, handler, body, volume, size, image_uuid, listVars, updateVars,
                   calls>>

\* lines 219-226.
ResolveSourceVolume ==
    /\ pc = "source_volid"
    /\ LET source_volid == Get(volume, "source_volid", None)
       IN  IF source_volid # None
           THEN \E answer \in VolumeAnswers(source_volid) :
                  Lookup("volume_api.get_volume", source_volid, answer,
                         "source_volume", "source_replica")
           ELSE NoReference("source_volume", "source_replica")
    /\ UNCHANGED <<ext_mgr, handler, body, volume, size, image_uuid, listVars, updateVars,
                   calls>>

\* The replication check accepting only an enabled replica.
NotReplicatedUnlessEnabled(src_vol) == src_vol.replication_status # "enabled"

\* line 233: the replication check on the volume found for source_replica.
NotReplicated(src_vol) == src_vol.replication_status = "disabled"

\* The source replica resolved last: the size is derived next, and the
\* consistency group is not resolved before it.
ResolveSourceReplicaThenSize ==
    /\ pc = "source_replica"
    /\ LET source_replica == Get(volume, "source_replica", None)
       IN  IF source_replica # None
           THEN \E src_vol \in VolumeAnswers(source_replica) :
                  /\ trace' = Append(trace,
                                Event("volume_api.get_volume", source_replica,
                                      src_vol))
                  /\ IF src_vol = NotFound
                     THEN Raise("NotFound") /\ UNCHANGED kwargs
                     ELSE IF NotReplicated(src_vol)
                     THEN Raise("BadRequest") /\ UNCHANGED kwargs
                     ELSE /\ kwargs' = Put(kwargs, "source_replica", src_vol)
                          /\ pc' = "size"
                          /\ UNCHANGED result
           ELSE NoReference("source_replica", "size")
    /\ UNCHANGED <<ext_mgr, handler, body, volume, size, image_uuid, listVars,
                   updateVars, calls>>

\* lines 228-239.
ResolveSourceReplica ==
    /\ pc = "source_replica"
    /\ LET source_replica == Get(volume, "source_replica", None)
       IN  IF source_replica # None
           THEN \E src_vol \in VolumeAnswers(source_replica) :
                  /\ trace' = Append(trace,
                                Event("volume_api.get_volume", source_replica,
                                      src_vol))
                  /\ IF src_vol = NotFound
                     THEN Raise("NotFound") /\ UNCHANGED kwargs
                     ELSE IF NotReplicated(src_vol)
                     THEN Raise("BadRequest") /\ UNCHANGED kwargs
                     ELSE /\ kwargs' = Put(kwargs, "source_replica", src_vol)
                          /\ pc' = "consistencygroup"
                          /\ UNCHANGED result
           ELSE NoReference("source_replica", "consistencygroup")
    /\ UNCHANGED <<ext_mgr, handler, body, volume, size, image_uuid, listVars, updateVars,
                   calls>>

\* lines 241-248.
ResolveConsistencyGroup ==
    /\ pc = "consistencygroup"
    /\ LET consistencygroup_id == Get(volume, "consistencygroup_id", None)
       IN  IF consistencygroup_id # None
           THEN \E answer \in {NotFound, [id |-> consistencygroup_id]} :
                  Lookup("consistencygroup_api.get", consistencygroup_id, answer,
                         "consistencygroup", "size")
           ELSE NoReference("consistencygroup", "size")
    /\ UNCHANGED <<ext_mgr, handler, body, volume, size, image_uuid, listVars, updateVars,
                   calls>>

\* lines 250-256: the if / elif chain over the resolved sources.
DerivedSize(v, kw) ==
    LET s == Get(v, "size", None)
    IN  IF s = None /\ kw["snapshot"] # NoneObj
        THEN kw["snapshot"].volume_size
        ELSE IF s = None /\ kw["source_volume"] # NoneObj
        THEN kw["source_volume"].size
        ELSE IF s = None /\ kw["source_replica"] # NoneObj
        THEN kw["source_replica"].size
        ELSE s

\* line 258: LOG.info(_LI("Create volume of %s GB"), size, context=context).
SizeLog == "LOG.info: Create volume of %s GB"

\* lines 250-258: the size, and the log line that reports it.
DeriveSize ==
    /\ pc = "size"
    /\ size' = DerivedSize(volume, kwargs)
    /\ trace' = Append(trace, Event(SizeLog, size', NoneObj))
    /\ pc' = "image"
    /\ UNCHANGED <<ext_mgr, handler, body, volume, kwargs, image_uuid, listVars,
                   updateVars, calls, result>>

\* The image reference looked at whether or not the extension is loaded.
ImageRequestedUngated(ext, v) == Get(v, "imageRef", None) # None

\* lines 260-262: the image reference is looked at only when the extension
\* os-image-create is loaded and the normalized request holds a non-None imageRef.
ImageRequested(ext, v) == ext /\ Get(v, "imageRef", None) # None

CreateImage ==
    /\ pc = "image"
    /\ pc' = IF ImageRequested(ext_mgr, volume) THEN "image_ref" ELSE "assemble"
    /\ UNCHANGED <<ext_mgr, handler, body, createVars, listVars, updateVars, trace, calls,
                   result>>

\* image_ref.split('/').pop(): the text after the last '/'.
split_pop(image_ref) == IF image_ref = UrlRef THEN UuidRef ELSE image_ref

\* _image_uuid_from_ref, lines 133-143: a reference that is no str has no
\* split() (AttributeError); otherwise the last path segment is kept and the
\* lookup by identifier is tried when that segment is uuid-like.
ImageUuidFromRef ==
    /\ pc = "image_ref"
    /\ LET image_ref == volume["imageRef"]
       IN  IF image_ref = IntRef
           THEN Raise("BadRequest") /\ UNCHANGED image_uuid
           ELSE /\ image_uuid' = split_pop(image_ref)
                /\ pc' = IF is_uuid_like(image_uuid') THEN "image_show"
                                                      ELSE "image_detail"
                /\ UNCHANGED result
    /\ UNCHANGED <<ext_mgr, handler, body, volume, kwargs, size, listVars, updateVars,
                   trace, calls>>

\* What image_service.show can do: raise, or return an image record.
ShowAnswers(id) ==
    {[exc |-> "ImageNotFound", image |-> EmptyDict],
     [exc |-> None, image |-> [id |-> id]],
     [exc |-> None, image |-> [name |-> "unnamed"]]}

\* lines 145-150: the identifier lookup yields the image's id, or nothing.
ShowYieldsId(answer) == answer.exc = None /\ Has(answer.image, "id")

\* _image_uuid_from_ref, lines 143-150 (and the return into line 264).
ImageShow ==
    /\ pc = "image_show"
    /\ \E answer \in ShowAnswers(image_uuid) :
        /\ trace' = Append(trace, Event("image_service.show", image_uuid, answer))
        /\ IF ShowYieldsId(answer)
           THEN /\ kwargs' = Put(kwargs, "image_id", answer.image["id"])
                /\ pc' = "assemble"
           ELSE /\ pc' = "image_detail"
                /\ UNCHANGED kwargs
    /\ UNCHANGED <<ext_mgr, handler, body, volume, size, image_uuid, listVars, updateVars,
                   calls, result>>

\* What image_service.detail can do: raise one of the catalog's errors, or
\* return the images whose name is the reference.
DetailAnswers ==
    {[exc |-> e, images |-> <<>>] :
        e \in {"ImageNotAuthorized", "GlanceConnectionFailed"}}
    \cup
    {[exc |-> None,
      images |-> [i \in 1..n |-> [id |-> "image-" \o ToString(i)]]] :
        n \in 0..MaxImages}

\* The search by name without the re-raise of lines 162-163: the Conflict is
\* caught with every other exception.
NameSearchConflictCaught(answer) ==
    IF answer.exc = None /\ Len(answer.images) = 1
    THEN [error |-> None, id |-> answer.images[1].id]
    ELSE [error |-> "BadRequest", id |-> None]

\* lines 153-171: the outcome of the search by name.
NameSearch(answer) ==
    IF answer.exc # None
    THEN [error |-> "BadRequest", id |-> None]
    ELSE IF Len(answer.images) > 1
    THEN [error |-> "Conflict", id |-> None]
    ELSE IF Len(answer.images) >= 1
    THEN [error |-> None, id |-> answer.images[1].id]
    ELSE [error |-> "BadRequest", id |-> None]

\* _image_uuid_from_ref, lines 152-171 (and the return into line 264).
ImageDetail ==
    /\ pc = "image_detail"
    /\ \E answer \in DetailAnswers :
        LET found == NameSearch(answer)
        IN  /\ trace' = Append(trace,
                          Event("image_service.detail", volume["imageRef"],
                                answer))
            /\ IF found.error # None
               THEN Raise(found.error) /\ UNCHANGED kwargs
               ELSE /\ kwargs' = Put(kwargs, "image_id", found.id)
                    /\ pc' = "assemble"
                    /\ UNCHANGED result
    /\ UNCHANGED <<ext_mgr, handler, body, volume, size, image_uuid, listVars, updateVars,
                   calls>>

\* lines 266-269: the pass-through arguments and the multiattach flag.
Assembled(v, kw) ==
    Put(Put(Put(kw, "availability_zone", Get(v, "availability_zone", None)),
            "scheduler_hints", Get(v, "scheduler_hints", None)),
        "multiattach", Get(v, "multiattach", "False"))

\* lines 266-279: the command is assembled and handed to volume_api.create.
CreateVolume ==
    /\ pc = "assemble"
    /\ kwargs' = Assembled(volume, kwargs)
    /\ trace' = Append(trace, Event("volume_api.create", size, NoneObj))
    /\ calls' = Append(calls,
                  [fn |-> "create", size |-> size,
                   name |-> Get(volume, "display_name", None),
                   description |-> Get(volume, "display_description", None),
                   kwargs |-> kwargs'])
    /\ pc' = "done"
    /\ result' = "202"
    /\ UNCHANGED <<ext_mgr, handler, body, volume, size, image_uuid, listVars, updateVars>>

(***************************************************************************)
(* index / detail: _get_volumes.                                           *)
(***************************************************************************)
FilterKeys == {"glance_metadata", "name", "display_name", "status", "bogus"}

FilterValues ==
    [k \in FilterKeys |->
        CASE k = "glance_metadata" -> {"g"}
          [] k = "name"            -> {"n"}
          [] k = "display_name"    -> {"dn"}
          [] k = "status"          -> {"available"}
          [] k = "bogus"           -> {"x"}]

SortKeyNames == {"name", "created_at", "size"}

\* The lists of 1 to n elements of S.
SeqsUpTo(S, n) == UNION {[1..m -> S] : m \in 1..n}

\* The parsed parameters of a listing request.
ListParams == DictsUpTo(FilterKeys, FilterValues, MaxKeys)
ListSortKeys == SeqsUpTo(SortKeyNames, MaxSortKeys)

\* CONF.query_volume_filters, the configured search options of a non-admin.
query_volume_filters ==
    {"name", "status", "metadata", "availability_zone", "bootable", "group_id"}

\* utils.remove_invalid_filter_options: an admin keeps every filter, a
\* non-admin only the allowed ones.
remove_invalid_filter_options(ctx, f, allowed) ==
    IF ctx.is_admin THEN f
    ELSE [k \in (DOMAIN f) \cap allowed |-> f[k]]

\* lines 89-94: the request's context and its parsed parameters; get_sort_params
\* yields at least one sort key.
GetVolumes(ctx, params, keys) ==
    /\ pc = "idle"
    /\ handler' = "_get_volumes"
    /\ body' = [params |-> params, sort_keys |-> keys]
    /\ context' = ctx
    /\ filters' = params
    /\ sort_keys' = keys
    /\ pc' = "filter_options"
    /\ UNCHANGED <<ext_mgr, createVars, updateVars, trace, calls, result>>

\* GET /volumes and GET /volumes/detail: index and detail both run _get_volumes.
ListRequest ==
    pc = "idle" /\ \E ctx \in [is_admin : BOOLEAN], params \in ListParams,
                      keys \in ListSortKeys : GetVolumes(ctx, params, keys)

\* lines 96-101: glance_metadata is dropped, then the invalid options.
FilterOptions ==
    /\ pc = "filter_options"
    /\ filters' = remove_invalid_filter_options(context,
                      Del(filters, "glance_metadata"), query_volume_filters)
    /\ pc' = "alias"
    /\ UNCHANGED <<ext_mgr, handler, body, createVars, context, sort_keys, updateVars,
                   trace, calls, result>>

\* list.index(x): the position of the first element equal to x.
index(keys, x) == CHOOSE i \in 1..Len(keys) :
                    keys[i] = x /\ \A j \in 1..(i - 1) : keys[j] # x

\* lines 104-105: sort_keys[sort_keys.index('name')] = 'display_name'.
AliasSortKeys(keys) ==
    IF \E i \in 1..Len(keys) : keys[i] = "name"
    THEN [keys EXCEPT ![index(keys, "name")] = "display_name"]
    ELSE keys

\* lines 107-109.
AliasFilters(f) == Rename(f, "name", "display_name")

\* lines 103-109: v2 allows name instead of display_name.
AliasNames ==
    /\ pc = "alias"
    /\ sort_keys' = AliasSortKeys(sort_keys)
    /\ filters' = AliasFilters(filters)
    /\ pc' = "get_all"
    /\ UNCHANGED <<ext_mgr, handler, body, createVars, context, updateVars, trace, calls,
                   result>>

\* lines 111-128: check_volume_filters, which may reject the filters, then the
\* query and the view.
GetAll ==
    /\ pc = "get_all"
    /\ \E accepted \in BOOLEAN :
        IF accepted
        THEN /\ trace' = trace \o
                        <<Event("volume_api.check_volume_filters", "filters", NoneObj),
                          Event("volume_api.get_all", "filters", NoneObj)>>
             /\ calls' = Append(calls, [fn |-> "get_all", sort_keys |-> sort_keys,
                                        filters |-> filters])
             /\ pc' = "done"
             /\ result' = "200"
        ELSE /\ trace' = Append(trace,
                           Event("volume_api.check_volume_filters", "filters",
                                 [exc |-> "InvalidInput"]))
             /\ Raise("BadRequest")
             /\ UNCHANGED calls
    /\ UNCHANGED <<ext_mgr, handler, body, createVars, listVars, updateVars>>

(***************************************************************************)
(* update.                                                                 *)
(***************************************************************************)
UpdateKeys ==
    {"name", "description", "display_name", "display_description", "metadata",
     "size", "status"}

UpdateValues ==
    [k \in UpdateKeys |->
        CASE k = "name"                -> {"n"}
          [] k = "description"         -> {"d"}
          [] k = "display_name"        -> {"dn"}
          [] k = "display_description" -> {"dd"}
          [] k = "metadata"            -> {"meta"}
          [] k = "size"                -> {"5"}
          [] k = "status"              -> {"error"}]

UpdateBodies ==
    {EmptyDict, [other |-> EmptyDict]}
    \cup {[volume |-> v] : v \in DictsUpTo(UpdateKeys, UpdateValues, MaxKeys)}

\* The record volume_api.get returns for the volume being updated.
StoredVolume ==
    [id |-> "vol-1", display_name |-> "old", display_description |-> "old-d",
     metadata |-> "old-meta", status |-> "available", size |-> "1"]

\* lines 287-297: the body must be non-empty and hold 'volume'.
Update(b) ==
    /\ pc = "idle"
    /\ handler' = "update"
    /\ body' = b
    /\ IF b = EmptyDict
       THEN Raise("BadRequest")
       ELSE IF ~Has(b, "volume")
       THEN Raise("BadRequest")
       ELSE pc' = "update_keys" /\ UNCHANGED result
    /\ UNCHANGED <<ext_mgr, createVars, listVars, updateVars, trace, calls>>

\* PUT /volumes/{id}: update(req, id, body) with any body a client can send.
UpdateRequest == pc = "idle" /\ \E b \in UpdateBodies : Update(b)

\* lines 300-306.
valid_update_keys ==
    {"name", "description", "display_name", "display_description", "metadata"}

\* The payload taken whole, without the filter on the valid keys.
ValidUpdateUnfiltered(v) == v

\* lines 308-310: the keys of the payload that are valid update keys.
ValidUpdate(v) == [k \in (DOMAIN v) \cap valid_update_keys |-> v[k]]

\* lines 297-310.
UpdateKeysStep ==
    /\ pc = "update_keys"
    /\ update_dict' = ValidUpdate(body["volume"])
    /\ pc' = "update_validate"
    /\ UNCHANGED <<ext_mgr, handler, body, createVars, listVars, db_volume, trace, calls,
                   result>>

\* line 312: validate_name_and_description(update_dict).
UpdateValidate ==
    /\ pc = "update_validate"
    /\ \E ok \in BOOLEAN :
        /\ ~ok => \/ Get(update_dict, "name", None) # None
                  \/ Get(update_dict, "description", None) # None
        /\ IF ok THEN pc' = "update_alias" /\ UNCHANGED result
                 ELSE Raise("BadRequest")
    /\ UNCHANGED <<ext_mgr, handler, body, createVars, listVars, updateVars, trace, calls>>

\* lines 314-321.
AliasUpdate(d) ==
    Rename(Rename(d, "name", "display_name"), "description", "display_description")

UpdateAlias ==
    /\ pc = "update_alias"
    /\ update_dict' = AliasUpdate(update_dict)
    /\ pc' = "update_get"
    /\ UNCHANGED <<ext_mgr, handler, body, createVars, listVars, db_volume, trace, calls,
                   result>>

\* line 325: the volume is fetched; NotFound is left to the wsgi level.
UpdateGet ==
    /\ pc = "update_get"
    /\ \E answer \in {NotFound, StoredVolume} :
        /\ trace' = Append(trace, Event("volume_api.get", "vol-1", answer))
        /\ IF answer # NotFound
           THEN /\ db_volume' = answer
                /\ pc' = "update_start"
                /\ UNCHANGED result
           ELSE Raise("NotFound") /\ UNCHANGED db_volume
    /\ UNCHANGED <<ext_mgr, handler, body, createVars, listVars, update_dict, calls>>

\* lines 326-327.
UpdateNotifyStart ==
    /\ pc = "update_start"
    /\ trace' = Append(trace, Event("notify_about_volume_usage", "update.start",
                                      NoneObj))
    /\ pc' = "update_call"
    /\ UNCHANGED <<ext_mgr, handler, body, createVars, listVars, updateVars, calls, result>>

\* What volume_api.update can do: return, or raise.
UpdateAnswers ==
    {[exc |-> e] : e \in {None, "InvalidVolumeMetadataSize", "InvalidVolumeMetadata"}}

\* The error of volume_api.update without the except clause of lines 329-330.
UpdateErrorUncaught(exc) == exc

\* lines 329-330: the error the handler ends with when volume_api.update raises.
UpdateError(exc) ==
    IF exc = "InvalidVolumeMetadataSize" THEN "RequestEntityTooLarge" ELSE exc

\* lines 328-330.
UpdateCall ==
    /\ pc = "update_call"
    /\ calls' = Append(calls, [fn |-> "update", fields |-> update_dict])
    /\ \E answer \in UpdateAnswers :
        /\ trace' = Append(trace, Event("volume_api.update", "vol-1", answer))
        /\ IF answer.exc = None
           THEN pc' = "update_merge" /\ UNCHANGED result
           ELSE Raise(UpdateError(answer.exc))
    /\ UNCHANGED <<ext_mgr, handler, body, createVars, listVars, updateVars>>

\* dict.update: the keys of `fields` replace or extend those of `d`.
Merged(d, fields) ==
    [k \in (DOMAIN d) \cup (DOMAIN fields) |->
        IF k \in DOMAIN fields THEN fields[k] ELSE d[k]]

\* lines 332-334.
UpdateMerge ==
    /\ pc = "update_merge"
    /\ db_volume' = Merged(db_volume, update_dict)
    /\ pc' = "update_end"
    /\ UNCHANGED <<ext_mgr, handler, body, createVars, listVars, update_dict, trace, calls,
                   result>>

\* lines 336-339.
UpdateNotifyEnd ==
    /\ pc = "update_end"
    /\ trace' = Append(trace, Event("notify_about_volume_usage", "update.end",
                                      NoneObj))
    /\ pc' = "done"
    /\ result' = "200"
    /\ UNCHANGED <<ext_mgr, handler, body, createVars, listVars, updateVars, calls>>

\* The handler has returned or raised: the controller keeps nothing of the
\* request (only ext_mgr is state of the controller, lines 47-51).
Respond ==
    /\ pc = "done"
    /\ handler' = None
    /\ pc' = "idle"
    /\ body' = EmptyDict
    /\ volume' = EmptyDict
    /\ kwargs' = EmptyDict
    /\ size' = None
    /\ image_uuid' = None
    /\ context' = [is_admin |-> FALSE]
    /\ filters' = EmptyDict
    /\ sort_keys' = <<>>
    /\ update_dict' = EmptyDict
    /\ db_volume' = EmptyDict
    /\ trace' = <<>>
    /\ calls' = <<>>
    /\ result' = None
    /\ UNCHANGED ext_mgr

(***************************************************************************)
(* Reading the trace.                                                      *)
(***************************************************************************)
EntityCalls ==
    {"volume_types.get_volume_type", "volume_types.get_volume_type_by_name",
     "volume_api.get_snapshot", "volume_api.get_volume", "consistencygroup_api.get"}
ImageCalls == {"image_service.show", "image_service.detail"}

At(ev) == {i \in 1..Len(trace) : trace[i].ev = ev}
AtAny(evs) == {i \in 1..Len(trace) : trace[i].ev \in evs}

\* The call made for the request's source_replica.
IsReplicaLookup(e) ==
    /\ e.ev = "volume_api.get_volume"
    /\ e.arg = Get(body["volume"], "source_replica", None)

\* A resolution step of create that did not yield what the request needs: a
\* lookup answered NotFound, the replica is not replicated, or the search by
\* name raised or matched no image or several.
ResolutionFailed(e) ==
    \/ e.ev \in EntityCalls /\ e.out = NotFound
    \/ IsReplicaLookup(e) /\ e.out # NotFound /\ e.out.replication_status = "disabled"
    \/ e.ev = "image_service.detail" /\ (e.out.exc # None \/ Len(e.out.images) # 1)

(***************************************************************************)
(* C1.  No partial application in create: a request that fails at any step *)
(* before the dispatch (body or name validation, a lookup, the replication *)
(* check, image resolution) never reaches volume_api.create; create is     *)
(* called at most once, and only when no resolution performed for the      *)
(* request failed.                                                         *)
(***************************************************************************)
C1_NoPartialApplication ==
    handler = "create" =>
        /\ Len(calls) <= 1
        /\ Cardinality(At("volume_api.create")) = Len(calls)
        /\ result \notin {None, "202"} => calls = <<>>
        /\ (\E i \in 1..Len(trace) : ResolutionFailed(trace[i])) => calls = <<>>
        /\ calls # <<>> => /\ pc = "done"
                           /\ result = "202"
                           /\ calls[1].fn = "create"

\* A request whose snapshot was found and whose source volume was not: it
\* ended NotFound and create was not called.
C1_Witness ==
    /\ handler = "create"
    /\ pc = "done"
    /\ result = "NotFound"
    /\ Len(trace) = 2
    /\ trace[1].ev = "volume_api.get_snapshot"
    /\ trace[2].ev = "volume_api.get_volume"
    /\ calls = <<>>

(***************************************************************************)
(* C2.  Step ordering in create, as stated: every reference resolution,   *)
(* image identity included, is complete before size derivation starts.     *)
(* The image service is consulted after the size was derived and logged    *)
(* (lines 260-264 follow lines 250-258), so this does not hold.            *)
(***************************************************************************)
C2_AllResolutionBeforeSize ==
    handler = "create" =>
        \A i \in AtAny(EntityCalls \cup ImageCalls), j \in At(SizeLog) : i < j

(***************************************************************************)
(* C2 as amended.  The volume type, snapshot, source volume, source        *)
(* replica and consistency group are resolved (their slots set) before the *)
(* size is derived; the image identity is resolved after the size is       *)
(* derived; the size derivation and every resolution precede the one call  *)
(* of volume_api.create, which is the last call of the request.            *)
(***************************************************************************)
C2_StepOrdering ==
    handler = "create" =>
        /\ \A i \in AtAny(EntityCalls), j \in At(SizeLog) : i < j
        /\ At(SizeLog) # {} =>
              {"metadata", "snapshot", "source_volume", "source_replica",
               "consistencygroup"} \subseteq DOMAIN kwargs
        /\ \A j \in AtAny(ImageCalls) : \E i \in At(SizeLog) : i < j
        /\ Cardinality(At(SizeLog)) <= 1
        /\ \A j \in At("volume_api.create") :
              /\ j = Len(trace)
              /\ \E i \in At(SizeLog) : i < j /\ trace[i].arg = trace[j].arg

\* A request that resolved a snapshot, derived its size, resolved its image by
\* name and was dispatched.
C2_Witness ==
    /\ handler = "create"
    /\ Len(trace) = 4
    /\ trace[1].ev = "volume_api.get_snapshot"
    /\ trace[2].ev = SizeLog
    /\ trace[3].ev = "image_service.detail"
    /\ trace[4].ev = "volume_api.create"

(***************************************************************************)
(* C3.  Size derivation.  The size handed to volume_api.create is the      *)
(* client's size when one is supplied; when it is omitted it is, in strict *)
(* priority, the resolved snapshot's volume_size, else the resolved source *)
(* volume's size, else the resolved source replica's size, and it is None  *)
(* only if none of these yields a value: a resolved source of higher       *)
(* priority that carries no size gives way to a lower one that carries one.*)
(***************************************************************************)
C3_SizeDerivation ==
    handler = "create" /\ calls # <<>> =>
        LET c == calls[1]
            supplied == Get(body["volume"], "size", None)
            snapshot_size ==
                IF c.kwargs["snapshot"] # NoneObj
                THEN c.kwargs["snapshot"].volume_size ELSE None
            source_volume_size ==
                IF c.kwargs["source_volume"] # NoneObj
                THEN c.kwargs["source_volume"].size ELSE None
            source_replica_size ==
                IF c.kwargs["source_replica"] # NoneObj
                THEN c.kwargs["source_replica"].size ELSE None
        IN  c.size = IF supplied # None THEN supplied
                     ELSE IF snapshot_size # None THEN snapshot_size
                     ELSE IF source_volume_size # None THEN source_volume_size
                     ELSE source_replica_size

(***************************************************************************)
(* C4.  Image identity resolution.  (1) When the reference's identifier is *)
(* uuid-like and image_service.show returns an image with an id, that id   *)
(* is the result and image_service.detail is not called.  (2) When the     *)
(* reference is a string and the lookup by identifier was not tried or did *)
(* not yield an id, image_service.detail is called exactly once, filtering *)
(* on the name equal to the reference.  (3) No match is BadRequest, several*)
(* matches are Conflict, one match yields that image's id.  (4) An error   *)
(* raised by the search by name is BadRequest.                             *)
(***************************************************************************)
C4_ImageResolution ==
    handler = "create" =>
        LET shows == At("image_service.show")
            details == At("image_service.detail")
            yielded == {i \in shows : /\ trace[i].out.exc = None
                                      /\ Has(trace[i].out.image, "id")}
        IN  /\ Cardinality(shows) <= 1
            /\ Cardinality(details) <= 1
            /\ \A i \in shows : /\ is_uuid_like(trace[i].arg)
                                /\ trace[i].arg = split_pop(volume["imageRef"])
            /\ \A i \in yielded :
                  /\ details = {}
                  /\ result \in {None, "202"}
                  /\ Has(kwargs, "image_id")
                  /\ kwargs["image_id"] = trace[i].out.image["id"]
            /\ image_uuid # None /\ pc \in {"assemble", "done"} /\ yielded = {} =>
                  /\ Cardinality(details) = 1
                  /\ \A j \in details : /\ trace[j].arg = volume["imageRef"]
                                        /\ \A i \in shows : i < j
            /\ image_uuid # None /\ ~is_uuid_like(image_uuid) => shows = {}
            /\ \A j \in details :
                  LET answer == trace[j].out
                  IN  /\ answer.exc # None => pc = "done" /\ result = "BadRequest"
                      /\ answer.exc = None /\ Len(answer.images) = 0 =>
                            pc = "done" /\ result = "BadRequest"
                      /\ answer.exc = None /\ Len(answer.images) > 1 =>
                            pc = "done" /\ result = "Conflict"
                      /\ answer.exc = None /\ Len(answer.images) = 1 =>
                            /\ result \in {None, "202"}
                            /\ Has(kwargs, "image_id")
                            /\ kwargs["image_id"] = answer.images[1].id

\* A uuid-like reference whose lookup by identifier raised and whose name
\* matched several images: Conflict.
C4_Witness ==
    /\ handler = "create"
    /\ pc = "done"
    /\ result = "Conflict"
    /\ \E i \in At("image_service.show"), j \in At("image_service.detail") :
          /\ i < j
          /\ trace[i].out.exc # None
          /\ trace[j].arg = UrlRef
          /\ Len(trace[j].out.images) = 2

(***************************************************************************)
(* C5.  Source-replica validation.  When the lookup of source_replica      *)
(* succeeds, the request fails there, with BadRequest, if and only if the  *)
(* volume's replication_status is "disabled"; with any other status the    *)
(* volume becomes kwargs['source_replica'] and the handler goes on to the  *)
(* consistency group.                                                      *)
(***************************************************************************)
C5_SourceReplica ==
    handler = "create" =>
        \A i \in 1..Len(trace) :
            IsReplicaLookup(trace[i]) /\ trace[i].out # NotFound =>
                LET src_vol == trace[i].out
                IN  IF src_vol.replication_status = "disabled"
                    THEN /\ i = Len(trace)
                         /\ pc = "done"
                         /\ result = "BadRequest"
                         /\ ~Has(kwargs, "source_replica")
                         /\ calls = <<>>
                    ELSE /\ Has(kwargs, "source_replica")
                         /\ kwargs["source_replica"] = src_vol
                         /\ i = Len(trace) =>
                               /\ pc \in {"consistencygroup", "size"}
                               /\ result = None

\* A replica found with replication_status "disabled": BadRequest.
C5_Witness ==
    /\ handler = "create"
    /\ pc = "done"
    /\ result = "BadRequest"
    /\ trace # <<>>
    /\ IsReplicaLookup(trace[Len(trace)])
    /\ trace[Len(trace)].out # NotFound
    /\ trace[Len(trace)].out.replication_status = "disabled"

(***************************************************************************)
(* C6.  Create-side aliasing.  Once the request mapping is normalized it   *)
(* holds neither name nor description; a supplied name / description is    *)
(* held under display_name / display_description, also when display_name / *)
(* display_description were supplied too, and these are the name and the   *)
(* description handed to volume_api.create.                                *)
(***************************************************************************)
Normalized ==
    /\ handler = "create"
    /\ \/ pc \notin {"idle", "validate", "normalize", "done"}
       \/ pc = "done" /\ trace # <<>>

C6_CreateAliasing ==
    Normalized =>
        LET sent == body["volume"]
        IN  /\ ~Has(volume, "name")
            /\ ~Has(volume, "description")
            /\ Has(sent, "name") =>
                  Has(volume, "display_name") /\ volume["display_name"] = sent["name"]
            /\ Has(sent, "description") =>
                  /\ Has(volume, "display_description")
                  /\ volume["display_description"] = sent["description"]
            /\ calls # <<>> =>
                  /\ Has(sent, "name") => calls[1].name = sent["name"]
                  /\ Has(sent, "description") =>
                        calls[1].description = sent["description"]

\* A request that supplied name and display_name and was dispatched under the
\* name.
C6_Witness ==
    /\ handler = "create"
    /\ calls # <<>>
    /\ Has(body["volume"], "name")
    /\ Has(body["volume"], "display_name")
    /\ body["volume"]["name"] # body["volume"]["display_name"]
    /\ calls[1].name = body["volume"]["name"]

(***************************************************************************)
(* C7.  Listing aliasing.  The filters and sort keys handed to             *)
(* volume_api.get_all hold no glance_metadata filter and no name filter (a *)
(* name filter's value is under display_name), and every occurrence of     *)
(* name in the sort keys is replaced by display_name at its position.      *)
(***************************************************************************)
C7_ListingAliasing ==
    handler = "_get_volumes" /\ calls # <<>> =>
        LET c == calls[1]
            sent == body
        IN  /\ ~Has(c.filters, "glance_metadata")
            /\ ~Has(c.filters, "name")
            /\ Has(sent.params, "name") =>
                  /\ Has(c.filters, "display_name")
                  /\ c.filters["display_name"] = sent.params["name"]
            /\ Len(c.sort_keys) = Len(sent.sort_keys)
            /\ \A i \in 1..Len(c.sort_keys) :
                  c.sort_keys[i] = IF sent.sort_keys[i] = "name" THEN "display_name"
                                   ELSE sent.sort_keys[i]

(***************************************************************************)
(* C8.  Update field set.  An empty payload, or one without 'volume', is   *)
(* BadRequest before any collaborator is called.  Otherwise the fields     *)
(* handed to volume_api.update, and merged into the volume record, have    *)
(* keys among display_name, display_description and metadata: a supplied   *)
(* name / description is carried as display_name / display_description,    *)
(* and every other key of the payload is dropped.                          *)
(***************************************************************************)
C8_UpdateFieldSet ==
    handler = "update" =>
        /\ body = EmptyDict \/ ~Has(body, "volume") =>
              /\ pc = "done"
              /\ result = "BadRequest"
              /\ trace = <<>>
              /\ calls = <<>>
        /\ \A n \in 1..Len(calls) :
              LET fields == calls[n].fields
                  sent == body["volume"]
              IN  /\ DOMAIN fields \subseteq
                        {"display_name", "display_description", "metadata"}
                  /\ Has(sent, "name") =>
                        /\ Has(fields, "display_name")
                        /\ fields["display_name"] = sent["name"]
                  /\ Has(sent, "description") =>
                        /\ Has(fields, "display_description")
                        /\ fields["display_description"] = sent["description"]
                  /\ Has(sent, "metadata") =>
                        Has(fields, "metadata") /\ fields["metadata"] = sent["metadata"]
        /\ db_volume # EmptyDict =>
              /\ DOMAIN db_volume = DOMAIN StoredVolume
              /\ \A k \in DOMAIN db_volume :
                    k \notin {"display_name", "display_description", "metadata"} =>
                        db_volume[k] = StoredVolume[k]
              /\ result = "200" =>
                    \A k \in DOMAIN calls[1].fields : db_volume[k] = calls[1].fields[k]

\* An update of name and status: the record's display_name is the new name,
\* its status is untouched.
C8_Witness ==
    /\ handler = "update"
    /\ result = "200"
    /\ body["volume"] = [name |-> "n", status |-> "error"]
    /\ calls[1].fields = [display_name |-> "n"]
    /\ db_volume["display_name"] = "n"
    /\ db_volume["status"] = "available"

(***************************************************************************)
(* C9.  Image gating in create.  The command carries image_id if and only  *)
(* if os-image-create is loaded and the request holds a non-None image     *)
(* reference (image_id if supplied, else imageRef), and then it is the id  *)
(* the image service yielded.  When the extension is not loaded the image  *)
(* service is never called and nothing fails once the size is derived.     *)
(* multiattach is False in the command when the request omits it.          *)
(***************************************************************************)
C9_ImageGating ==
    handler = "create" /\ Has(body, "volume") =>
        LET sent == body["volume"]
            image_ref == IF Has(sent, "image_id") THEN sent["image_id"]
                         ELSE Get(sent, "imageRef", None)
        IN  /\ calls # <<>> =>
                LET kw == calls[1].kwargs
                IN  /\ Has(kw, "image_id") <=> ext_mgr /\ image_ref # None
                    /\ Has(kw, "image_id") =>
                          \E i \in AtAny(ImageCalls) :
                              \/ /\ trace[i].ev = "image_service.show"
                                 /\ trace[i].out.exc = None
                                 /\ trace[i].out.image = [id |-> kw["image_id"]]
                              \/ /\ trace[i].ev = "image_service.detail"
                                 /\ trace[i].out.exc = None
                                 /\ trace[i].out.images = <<[id |-> kw["image_id"]]>>
                    /\ kw["multiattach"] = Get(sent, "multiattach", "False")
            /\ ~ext_mgr =>
                /\ AtAny(ImageCalls) = {}
                /\ At(SizeLog) # {} => result \in {None, "202"}
            /\ image_ref = None => AtAny(ImageCalls) = {}

\* The extension is loaded, the image came as image_id, and the command
\* carries the resolved id, with multiattach False.
C9_Witness ==
    /\ handler = "create"
    /\ ext_mgr
    /\ calls # <<>>
    /\ Has(body["volume"], "image_id")
    /\ ~Has(body["volume"], "multiattach")
    /\ Has(calls[1].kwargs, "image_id")
    /\ calls[1].kwargs["image_id"] = UuidRef
    /\ calls[1].kwargs["multiattach"] = "False"

(***************************************************************************)
(* C10.  Update event ordering.  'update.start' is notified after the      *)
(* volume was fetched and before volume_api.update is called; the merge of *)
(* the fields into the fetched record and 'update.end' come only after     *)
(* that call returned.  When the call raises InvalidVolumeMetadataSize the *)
(* request ends RequestEntityTooLarge, the record is unmerged and          *)
(* 'update.end' is not notified.                                           *)
(***************************************************************************)
Notified(what) ==
    {i \in At("notify_about_volume_usage") : trace[i].arg = what}

C10_UpdateOrdering ==
    handler = "update" =>
        LET gets == At("volume_api.get")
            updates == At("volume_api.update")
            starts == Notified("update.start")
            ends == Notified("update.end")
            returned == {u \in updates : trace[u].out.exc = None}
        IN  /\ Cardinality(starts) <= 1 /\ Cardinality(ends) <= 1
            /\ Cardinality(updates) <= 1
            /\ \A s \in starts : \E g \in gets : g < s /\ trace[g].out # NotFound
            /\ \A u \in updates : \E s \in starts : s < u
            /\ \A e \in ends : \E u \in returned : u < e
            /\ db_volume # EmptyDict /\ returned = {} => db_volume = StoredVolume
            /\ ends # {} => db_volume = Merged(StoredVolume, calls[1].fields)
            /\ \A u \in updates :
                  trace[u].out.exc = "InvalidVolumeMetadataSize" =>
                      /\ pc = "done"
                      /\ result = "RequestEntityTooLarge"
                      /\ db_volume = StoredVolume
                      /\ ends = {}

\* An update of the name that volume_api.update refused for the size of the
\* metadata: RequestEntityTooLarge, the record as fetched, no 'update.end'.
C10_Witness ==
    /\ handler = "update"
    /\ result = "RequestEntityTooLarge"
    /\ update_dict = [display_name |-> "n", metadata |-> "meta"]
    /\ db_volume = StoredVolume
    /\ Notified("update.start") # {}
    /\ Notified("update.end") = {}

Next ==
    \/ CreateRequest
    \/ ValidateNameAndDescription
    \/ Normalize
    \/ ResolveVolumeType
    \/ ResolveSnapshot
    \/ ResolveSourceVolume
    \/ ResolveSourceReplica
    \/ ResolveConsistencyGroup
    \/ DeriveSize
    \/ CreateImage
    \/ ImageUuidFromRef
    \/ ImageShow
    \/ ImageDetail
    \/ CreateVolume
    \/ ListRequest
    \/ FilterOptions
    \/ AliasNames
    \/ GetAll
    \/ UpdateRequest
    \/ UpdateKeysStep
    \/ UpdateValidate
    \/ UpdateAlias
    \/ UpdateGet
    \/ UpdateNotifyStart
    \/ UpdateCall
    \/ UpdateMerge
    \/ UpdateNotifyEnd
    \/ Respond

Spec == Init /\ [][Next]_vars
====
